---- MODULE Spec2Model ----
(***************************************************************************)
(* voter-api: the HTTP handlers of package api over the data-access layer  *)
(* of package db, which keeps one JSON document per voter in Redis under   *)
(* the key "voter:<id>".                                                   *)
(*                                                                         *)
(* Go values are modelled with the distinctions encoding/json makes: a    *)
(* slice is nil or non-nil (nil marshals to null, an empty non-nil slice   *)
(* to []), and a slice decoded into a variable that already holds a slice  *)
(* is decoded into that slice's backing array.                             *)
(***************************************************************************)
EXTENDS Integers, Sequences, FiniteSets, TLC

\* ---------------------------------------------------------------------------
\* Bounds of the model
\* ---------------------------------------------------------------------------
\* longest history a stored voter document may reach
MaxHist == 1

\* the longest stored history a replace-history or delete-history request
\* finds (specification SpecPoll)
MaxPollHist == 3

VoterIds == {1, 2}
PollIds == {1, 2}
VoteIds == {1, 2}
Names == {"Jane Smith", "John Doe"}
Emails == {"jane@example.com"}
VoteDates == {"2023-07-01T00:00:00Z"}

\* ---------------------------------------------------------------------------
\* db/voter.go: constants, Go values
\* ---------------------------------------------------------------------------
RedisNilError == "redis: nil"
RedisKeyPrefix == "voter:"
NoErr == "nil"
\* what the Redis server answers to DEL with no key
RedisArityError == "ERR wrong number of arguments for 'del' command"

ZeroTime == "0001-01-01T00:00:00Z"

\* type VoterHistory struct
VoterHistory(pollId, voteId, voteDate) ==
    [PollId |-> pollId, VoteId |-> voteId, VoteDate |-> voteDate]

ZeroHistory == VoterHistory(0, 0, ZeroTime)

\* v := <call>; <rest>: the result of a call is bound once and used by what
\* follows
With(v, Rest(_)) == Rest(v)

\* a Go slice held by value: nil, or non-nil with its elements
NilSlice == [isNil |-> TRUE, elems |-> <<>>]
Slice(s) == [isNil |-> FALSE, elems |-> s]

\* Go's append on a slice nobody else holds
GoAppend(sl, x) == Slice(Append(sl.elems, x))

\* type VoterItem struct
VoterItem(id, name, email, hist) ==
    [VoterId |-> id, Name |-> name, Email |-> email, VoteHistory |-> hist]

ZeroVoterItem == VoterItem(0, "", "", NilSlice)

\* ---------------------------------------------------------------------------
\* JSON values (encoding/json, as used by rejson's JSONSet/JSONGet and by
\* fiber's c.JSON / c.BodyParser)
\* ---------------------------------------------------------------------------
JNull == [kind |-> "null"]
JArray(s) == [kind |-> "array", elems |-> s]
\* an object member that the JSON text does not carry
JMissing == [kind |-> "missing"]

\* json.Marshal of a VoterHistory (struct tags pollId, voteId, voteDate)
MarshalHistory(vh) ==
    [kind |-> "object", pollId |-> vh.PollId, voteId |-> vh.VoteId,
     voteDate |-> vh.VoteDate]

\* json.Marshal of a []VoterHistory: a nil slice is null, any other an array
MarshalHistoryList(sl) ==
    IF sl.isNil THEN JNull
    ELSE JArray([i \in 1..Len(sl.elems) |-> MarshalHistory(sl.elems[i])])

\* json.Marshal of a VoterItem (struct tags voterId, name, email, voteHistory)
MarshalVoter(v) ==
    [kind |-> "object", voterId |-> v.VoterId, name |-> v.Name,
     email |-> v.Email, voteHistory |-> MarshalHistoryList(v.VoteHistory)]

\* json.Unmarshal of an object into a VoterHistory
UnmarshalHistory(j) == VoterHistory(j.pollId, j.voteId, j.voteDate)

\* ---------------------------------------------------------------------------
\* Decoding into a variable that is reused (db/voter.go:227, 233): the slice
\* is a header over a backing array, and headers copied out of the variable
\* keep pointing at the array later decodes write into.
\* ---------------------------------------------------------------------------
\* slice header: ptr is an index into the heap of backing arrays (0: none)
NilHdr == [isNil |-> TRUE, ptr |-> 0, len |-> 0, cap |-> 0]
EmptyHdr == [isNil |-> FALSE, ptr |-> 0, len |-> 0, cap |-> 0]
EmptyHeap == <<>>

\* capacity after growing a full slice by one element: encoding/json up to
\* Go 1.20 grows by half with a minimum of 4; from Go 1.21 it calls
\* reflect.Value.Grow(1), the append rule (1, then doubling)
GrowthPolicies == {"go1.20", "go1.21"}
GrowCap(pol, cap) ==
    IF pol = "go1.20"
    THEN (IF cap + (cap \div 2) < 4 THEN 4 ELSE cap + (cap \div 2))
    ELSE (IF cap = 0 THEN 1 ELSE 2 * cap)

\* encoding/json decodeState.array for a slice target: element i is decoded
\* into index i of the existing backing array while i < cap, the slice grows
\* into a new array otherwise, the length is cut to the number of elements,
\* and an empty JSON array yields a new empty non-nil slice
RECURSIVE DecodeArrayFrom(_, _, _, _, _)
DecodeArrayFrom(i, elems, hdr, heap, pol) ==
    IF i >= Len(elems)
    THEN LET h1 == IF i < hdr.len THEN [hdr EXCEPT !.len = i] ELSE hdr
             h2 == IF i = 0 THEN EmptyHdr ELSE h1
         IN  [hdr |-> h2, heap |-> heap]
    ELSE LET grown == i >= hdr.cap
             newcap == GrowCap(pol, hdr.cap)
             old == IF hdr.ptr = 0 THEN <<>> ELSE heap[hdr.ptr]
             newarr == [k \in 1..newcap |->
                           IF k <= hdr.len THEN old[k] ELSE ZeroHistory]
             heap1 == IF grown THEN Append(heap, newarr) ELSE heap
             h1 == IF grown
                   THEN [isNil |-> FALSE, ptr |-> Len(heap1),
                         len |-> hdr.len, cap |-> newcap]
                   ELSE hdr
             h2 == IF i >= h1.len THEN [h1 EXCEPT !.len = i + 1] ELSE h1
             heap2 == [heap1 EXCEPT ![h2.ptr][i + 1] =
                           UnmarshalHistory(elems[i + 1])]
         IN  DecodeArrayFrom(i + 1, elems, h2, heap2, pol)

\* json.Unmarshal of a voter object into *target: members the text carries
\* overwrite the fields; null sets the slice to nil; a missing member leaves
\* the field as it was
UnmarshalVoter(j, target, heap, pol) ==
    With(IF j.voteHistory.kind = "array"
         THEN DecodeArrayFrom(0, j.voteHistory.elems, target.VoteHistory, heap, pol)
         ELSE IF j.voteHistory.kind = "null"
         THEN [hdr |-> NilHdr, heap |-> heap]
         ELSE [hdr |-> target.VoteHistory, heap |-> heap],
         LAMBDA d :
            [item |-> VoterItem(j.voterId, j.name, j.email, d.hdr),
             heap |-> d.heap])

\* the slice a header denotes, by value
Deref(hdr, heap) ==
    IF hdr.isNil THEN NilSlice
    ELSE IF hdr.len = 0 THEN Slice(<<>>)
    ELSE Slice(SubSeq(heap[hdr.ptr], 1, hdr.len))

DerefItem(item, heap) ==
    [item EXCEPT !.VoteHistory = Deref(item.VoteHistory, heap)]

\* a variable declared with var (zero value), before anything is decoded
FreshVoterItem == VoterItem(0, "", "", NilHdr)
\* decoding into a fresh variable gives the same value under either policy
AnyPolicy == CHOOSE p \in GrowthPolicies : TRUE

\* ---------------------------------------------------------------------------
\* db/voter.go: the Redis helpers.  The store maps each key that exists to
\* its JSON document.
\* ---------------------------------------------------------------------------
redisKeyFromId(id) == <<RedisKeyPrefix, id>>

\* KEYS "voter:*", as a set; the server returns the keys in no fixed order
getAllKeys(st) == {k \in DOMAIN st : k[1] = RedisKeyPrefix}

\* the orders in which KEYS may list a set of keys
RECURSIVE Orders(_)
Orders(S) ==
    IF S = {} THEN {<<>>}
    ELSE UNION {{<<k>> \o o : o \in Orders(S \ {k})} : k \in S}

getVoterFromRedis(st, voterID, voterItem, heap, pol) ==
    IF voterID \notin DOMAIN st
    THEN [err |-> RedisNilError, item |-> voterItem, heap |-> heap]
    ELSE With(UnmarshalVoter(st[voterID], voterItem, heap, pol), LAMBDA u :
            [err |-> NoErr, item |-> u.item, heap |-> u.heap])

\* JSON.SET key . <json.Marshal(voterItem)>
JSONSet(st, key, voterItem) ==
    [k \in (DOMAIN st) \cup {key} |->
        IF k = key THEN MarshalVoter(voterItem) ELSE st[k]]

\* DEL key...: the number of keys removed; no key at all is a command error
Del(st, keys) ==
    IF keys = {}
    THEN [err |-> RedisArityError, n |-> 0, store |-> st]
    ELSE [err |-> NoErr, n |-> Cardinality(keys \cap DOMAIN st),
          store |-> [k \in (DOMAIN st) \ keys |-> st[k]]]

\* ---------------------------------------------------------------------------
\* db/voter.go: the data-access operations.  An operation that issues one
\* Redis command takes the store and returns its Go results together with
\* the store it leaves.  An operation that issues several commands is given
\* command by command, because the commands of other requests may be served
\* in between: what it read is held in its local variables.
\* ---------------------------------------------------------------------------
\* an existence check that never finds a document: an insert that overwrites
AddVoterCheck_Overwrite(st, voterItem) == NoErr

\* AddVoter, first command: JSON.GET of the key; a document found is an error
AddVoterCheck(st, voterItem) ==
    IF getVoterFromRedis(st, redisKeyFromId(voterItem.VoterId),
                         FreshVoterItem, EmptyHeap, AnyPolicy).err = NoErr
    THEN "voter already exists"
    ELSE NoErr

\* AddVoter, second command: JSON.SET of the key
AddVoterWrite(st, voterItem) ==
    JSONSet(st, redisKeyFromId(voterItem.VoterId), voterItem)

DeleteVoter(st, id) ==
    LET pattern == redisKeyFromId(id)
        d == Del(st, {pattern})
    IN  IF d.err # NoErr THEN [err |-> d.err, store |-> d.store]
        ELSE IF d.n = 0
        THEN [err |-> "attempted to delete non-existent voterr", store |-> d.store]
        ELSE [err |-> NoErr, store |-> d.store]

\* DeleteAll, second command: DEL of the keys that KEYS listed
DelKeyList(st, keyList) ==
    LET d == Del(st, keyList)
    IN  [n |-> d.n, err |-> d.err, store |-> d.store]

\* UpdateVoter, first command: JSON.GET of the key; no document is an error
UpdateVoterCheck(st, voterItem) ==
    IF getVoterFromRedis(st, redisKeyFromId(voterItem.VoterId),
                         FreshVoterItem, EmptyHeap, AnyPolicy).err # NoErr
    THEN "voter does not exist"
    ELSE NoErr

\* a write that keeps the stored history when the new voter carries none
UpdateVoterWrite_Merge(st, voterItem) ==
    LET redisKey == redisKeyFromId(voterItem.VoterId)
        g == getVoterFromRedis(st, redisKey, FreshVoterItem, EmptyHeap, AnyPolicy)
        old == DerefItem(g.item, g.heap)
    IN  JSONSet(st, redisKey,
                IF g.err = NoErr /\ voterItem.VoteHistory.isNil
                THEN [voterItem EXCEPT !.VoteHistory = old.VoteHistory]
                ELSE voterItem)

\* UpdateVoter, second command: JSON.SET of the key with the whole voter
UpdateVoterWrite(st, voterItem) ==
    JSONSet(st, redisKeyFromId(voterItem.VoterId), voterItem)

GetVoter(st, id) ==
    LET pattern == redisKeyFromId(id)
    IN  With(getVoterFromRedis(st, pattern, FreshVoterItem, EmptyHeap, AnyPolicy),
             LAMBDA g :
                IF g.err # NoErr
                THEN [err |-> g.err, item |-> ZeroVoterItem]
                ELSE [err |-> NoErr, item |-> DerefItem(g.item, g.heap)])

\* GetAllVoters after KEYS: the local variables of the loop.  ks: the keys
\* still to fetch, in the order KEYS listed them; pol: the toolchain's growth
\* rule
GetAllVotersVars(ks, pol) ==
    [ks |-> ks, pol |-> pol, voterItem |-> FreshVoterItem,
     voterList |-> NilSlice, heap |-> EmptyHeap]

\* one iteration of the loop of GetAllVoters (one JSON.GET): the one
\* voterItem variable is decoded into for every key, and a copy of it
\* (sharing its history's backing array) is appended
GetAllVotersIter(st, l) ==
    With(getVoterFromRedis(st, Head(l.ks), l.voterItem, l.heap, l.pol), LAMBDA g :
        IF g.err # NoErr
        THEN [err |-> g.err, vars |-> l]
        ELSE [err |-> NoErr,
              vars |-> [l EXCEPT !.ks = Tail(l.ks),
                                 !.voterItem = g.item,
                                 !.voterList = GoAppend(l.voterList, g.item),
                                 !.heap = g.heap]])

\* the list GetAllVoters returns, by value
GetAllVotersList(l) ==
    [l.voterList EXCEPT !.elems =
        [i \in 1..Len(l.voterList.elems) |-> DerefItem(l.voterList.elems[i], l.heap)]]

GetVoterPolls(st, voterID) ==
    With(GetVoter(st, voterID), LAMBDA g :
        IF g.err # NoErr THEN [err |-> g.err, polls |-> NilSlice]
        ELSE [err |-> NoErr, polls |-> g.item.VoteHistory])

\* index of the first entry with the poll identifier, 0 when there is none
FirstMatch(elems, pollID) ==
    IF \E i \in 1..Len(elems) : elems[i].PollId = pollID
    THEN CHOOSE i \in 1..Len(elems) :
            /\ elems[i].PollId = pollID
            /\ \A k \in 1..(i - 1) : elems[k].PollId # pollID
    ELSE 0

GetVoterPoll(st, voterID, pollID) ==
    With(GetVoter(st, voterID), LAMBDA g :
    With(FirstMatch(g.item.VoteHistory.elems, pollID), LAMBDA i :
        IF g.err # NoErr THEN [err |-> g.err, poll |-> ZeroHistory]
        ELSE IF i # 0 THEN [err |-> NoErr, poll |-> g.item.VoteHistory.elems[i]]
        ELSE [err |-> "poll not found for this voter", poll |-> ZeroHistory]))

\* AddVoterPoll up to its call of UpdateVoter: GetVoter (one JSON.GET), the
\* duplicate check and the append; item is the voter handed to UpdateVoter
AddVoterPollRead(st, voterPoll, voterId) ==
    With(GetVoter(st, voterId), LAMBDA g :
        IF g.err # NoErr THEN [err |-> g.err, item |-> g.item]
        ELSE IF FirstMatch(g.item.VoteHistory.elems, voterPoll.PollId) # 0
        THEN [err |-> "poll already exists", item |-> g.item]
        ELSE [err |-> NoErr,
              item |-> [g.item EXCEPT !.VoteHistory =
                           GoAppend(g.item.VoteHistory, voterPoll)]])

\* UpdateVoterPoll up to its call of UpdateVoter
UpdateVoterPollRead(st, voterPoll, voterId, pollId) ==
    With(GetVoter(st, voterId), LAMBDA g :
    With(FirstMatch(g.item.VoteHistory.elems, pollId), LAMBDA i :
        IF g.err # NoErr THEN [err |-> g.err, item |-> g.item]
        ELSE IF i # 0
        THEN [err |-> NoErr, item |-> [g.item EXCEPT !.VoteHistory.elems[i] = voterPoll]]
        ELSE [err |-> "poll not found for this voter", item |-> g.item]))

\* DeleteVoterPoll that fills the hole with the last entry and truncates
\* (h[i] = h[len-1]; h = h[:len-1]) instead of shifting the tail
DeleteVoterPollRead_SwapWithLast(st, voterID, pollID) ==
    With(GetVoter(st, voterID), LAMBDA g :
    With(g.item.VoteHistory.elems, LAMBDA h :
    With(FirstMatch(h, pollID), LAMBDA i :
        IF g.err # NoErr THEN [err |-> g.err, item |-> g.item]
        ELSE IF i # 0
        THEN [err |-> NoErr,
              item |-> [g.item EXCEPT !.VoteHistory =
                           Slice(SubSeq([h EXCEPT ![i] = h[Len(h)]], 1, Len(h) - 1))]]
        ELSE [err |-> "poll not found for this voter", item |-> g.item])))

\* DeleteVoterPoll up to its call of UpdateVoter; append(h[:i], h[i+1:]...)
\* is never nil
DeleteVoterPollRead(st, voterID, pollID) ==
    With(GetVoter(st, voterID), LAMBDA g :
    With(g.item.VoteHistory.elems, LAMBDA h :
    With(FirstMatch(h, pollID), LAMBDA i :
        IF g.err # NoErr THEN [err |-> g.err, item |-> g.item]
        ELSE IF i # 0
        THEN [err |-> NoErr,
              item |-> [g.item EXCEPT !.VoteHistory =
                           Slice(SubSeq(h, 1, i - 1) \o SubSeq(h, i + 1, Len(h)))]]
        ELSE [err |-> "poll not found for this voter", item |-> g.item])))

\* ---------------------------------------------------------------------------
\* Requests: path parameters and JSON bodies
\* ---------------------------------------------------------------------------
\* a path segment: the text of an integer, or something else
IntParam(i) == [int |-> TRUE, val |-> i]
BadParam == [int |-> FALSE, val |-> 0]
IdParams == {IntParam(i) : i \in VoterIds} \cup {BadParam}
PollParams == {IntParam(i) : i \in PollIds} \cup {BadParam}

\* fiber's c.ParamsInt
ParamsInt(p) == [err |-> ~p.int, val |-> IF p.int THEN p.val ELSE 0]

\* a body that is not JSON of the expected shape
MalformedBody == [kind |-> "malformed"]

HistoryObjects ==
    {MarshalHistory(VoterHistory(p, v, d)) :
        p \in PollIds, v \in VoteIds, d \in VoteDates}
HistoryBodies == HistoryObjects \cup {MalformedBody}

\* lengths of the voteHistory array a POST /voters or PUT /voters body carries
BodyHistLens == {0, 1}
BodyHistories ==
    {JMissing, JNull} \cup
    {JArray(s) : s \in UNION {[1..n -> HistoryObjects] : n \in BodyHistLens}}
VoterBodies ==
    {[kind |-> "object", voterId |-> i, name |-> n, email |-> e, voteHistory |-> h] :
        i \in VoterIds, n \in Names, e \in Emails, h \in BodyHistories}
    \cup {MalformedBody}

\* c.BodyParser(&voterItem) on a zero VoterItem
BodyParserVoter(body) ==
    IF body.kind # "object" THEN [err |-> TRUE, val |-> ZeroVoterItem]
    ELSE LET u == UnmarshalVoter(body, FreshVoterItem, EmptyHeap, AnyPolicy)
         IN  [err |-> FALSE, val |-> DerefItem(u.item, u.heap)]

\* c.BodyParser(&voterHistory) on a zero VoterHistory
BodyParserHistory(body) ==
    IF body.kind # "object" THEN [err |-> TRUE, val |-> ZeroHistory]
    ELSE [err |-> FALSE, val |-> UnmarshalHistory(body)]

\* ---------------------------------------------------------------------------
\* Responses
\* ---------------------------------------------------------------------------
StatusOK == 200
StatusBadRequest == 400
StatusNotFound == 404
StatusInternalServerError == 500

\* fiber.NewError(code)
NewError(code) == [status |-> code, body |-> [kind |-> "error"]]
\* c.JSON(v), v already marshalled
JSONReply(j) == [status |-> StatusOK, body |-> j]
\* c.Status(200).SendString(text)
SendString(text) == [status |-> StatusOK, body |-> [kind |-> "text", text |-> text]]

\* ---------------------------------------------------------------------------
\* State.  fiber serves each request on its own goroutine; the handlers share
\* one Redis client and nothing (lock, MULTI/WATCH) serialises them.  A Redis
\* command is atomic in the server, so the requests in flight interleave
\* command by command.  A step of a request is one Redis command together
\* with the local computation of the handler before and after it.
\* ---------------------------------------------------------------------------
VARIABLES
    store,   \* Redis: key -> JSON document
    pre,     \* the store found by the request that is being served alone
    procs    \* the requests in flight: each one's position and local variables

vars == <<store, pre, procs>>

\* the requests in flight
Procs == {1, 2}

NoReq == [op |-> "none"]
NoResp == [status |-> 0, body |-> JNull]
NoDb == [err |-> NoErr, n |-> 0]
Db(err, n) == [err |-> err, n |-> n]
NoVars == [none |-> TRUE]
NoStore == [none |-> TRUE]

\* a goroutine before its request: pc is the command it issues next, req the
\* request, loc the local variables, resp the response once it is sent, db
\* what the data-access call returned (err, count); alone records that no
\* other goroutine has issued a command since the request arrived
NoRequest ==
    [pc |-> "idle", req |-> NoReq, loc |-> NoVars, resp |-> NoResp, db |-> NoDb,
     alone |-> FALSE]

\* the histories of the documents the requests may find stored: none (a
\* voter inserted without history), or the votes of a voter in any polls,
\* the k-th vote carrying vote identifier k
StoredHistories ==
    {NilSlice} \cup
    {Slice([k \in DOMAIN polls |-> VoterHistory(polls[k], k, date)]) :
        polls \in UNION {[1..n -> PollIds] : n \in 1..MaxHist}, date \in VoteDates}

\* the history a stored document holds (0 when the key is absent)
HistLen(st, id) ==
    IF redisKeyFromId(id) \in DOMAIN st
       /\ st[redisKeyFromId(id)].voteHistory.kind = "array"
    THEN Len(st[redisKeyFromId(id)].voteHistory.elems)
    ELSE 0

RECURSIVE SumHistLen(_, _)
SumHistLen(st, ids) ==
    IF ids = {} THEN 0
    ELSE LET i == CHOOSE i \in ids : TRUE
         IN  HistLen(st, i) + SumHistLen(st, ids \ {i})

\* the stores the requests may find: what earlier requests have written with
\* JSON.SET, any subset of the voters with up to MaxHist history entries in
\* all
Stores ==
    LET doc(i, h) == MarshalVoter(VoterItem(i, "Jane Smith", "jane@example.com", h))
        docs == {doc(i, h) : i \in VoterIds, h \in StoredHistories}
        all == UNION {[K -> docs] : K \in SUBSET {redisKeyFromId(i) : i \in VoterIds}}
    IN  {st \in all : /\ \A k \in DOMAIN st : st[k].voterId = k[2]
                      /\ SumHistLen(st, VoterIds) <= MaxHist}

Init ==
    /\ store \in Stores
    /\ pre = NoStore
    /\ procs = [p \in Procs |-> NoRequest]

\* what a handler did: its response, the store it leaves, the data-access result
Reply(r, st, d) == [resp |-> r, store |-> st, db |-> d]

\* goroutine p has issued a command and is now as record r says; a request
\* is served alone from its arrival until another goroutine issues a command
Step(p, r) ==
    /\ procs' = [o \in Procs |->
                IF o = p
                THEN [r EXCEPT !.alone = procs[p].pc = "idle" \/ procs[p].alone]
                ELSE [procs[o] EXCEPT !.alone = FALSE]]
    /\ pre' = IF procs[p].pc = "idle" THEN store
              ELSE IF procs[p].alone THEN pre
              ELSE NoStore

\* request q of goroutine p is answered with response r
Done(p, q, r, d) ==
    Step(p, [pc |-> "done", req |-> q, loc |-> NoVars, resp |-> r, db |-> d,
             alone |-> FALSE])

\* goroutine p, serving request q, goes on to issue command pc with the
\* local variables l
Goto(p, q, pc, l) ==
    Step(p, [pc |-> pc, req |-> q, loc |-> l, resp |-> NoResp, db |-> NoDb,
             alone |-> FALSE])

\* request q of goroutine p arrives and is answered as the handler result h
\* says
Answer(p, q, h) ==
    /\ store' = h.store
    /\ Done(p, q, h.resp, h.db)

\* ---------------------------------------------------------------------------
\* The handlers (package api) that issue at most one Redis command: each
\* decodes the request, calls the data-access layer and produces the response.
\* ---------------------------------------------------------------------------
\* GET /voters/:id
VoterAPI_GetVoter(st, idp) ==
    LET id == ParamsInt(idp)
        r == GetVoter(st, id.val)
    IN  IF id.err THEN Reply(NewError(StatusBadRequest), st, NoDb)
        ELSE IF r.err # NoErr
        THEN Reply(NewError(StatusNotFound), st, Db(r.err, 0))
        ELSE Reply(JSONReply(MarshalVoter(r.item)), st, Db(NoErr, 0))

\* DELETE /voters/:id
VoterAPI_DeleteVoter(st, idp) ==
    LET id == ParamsInt(idp)
        r == DeleteVoter(st, id.val)
    IN  IF id.err THEN Reply(NewError(StatusBadRequest), st, NoDb)
        ELSE IF r.err # NoErr
        THEN Reply(NewError(StatusInternalServerError), r.store, Db(r.err, 0))
        ELSE Reply(SendString("Delete OK"), r.store, Db(NoErr, 0))

\* GET /voters/:id/polls
VoterAPI_GetVoterPolls(st, idp) ==
    LET id == ParamsInt(idp)
        r == GetVoter(st, id.val)
    IN  IF id.err THEN Reply(NewError(StatusBadRequest), st, NoDb)
        ELSE IF r.err # NoErr
        THEN Reply(NewError(StatusNotFound), st, Db(r.err, 0))
        ELSE Reply(JSONReply(MarshalHistoryList(r.item.VoteHistory)), st, Db(NoErr, 0))

\* GET /voters/:id/polls/:pollid
VoterAPI_GetVoterPoll(st, idp, pollp) ==
    LET voterID == ParamsInt(idp)
        pollID == ParamsInt(pollp)
        r == GetVoter(st, voterID.val)
        i == FirstMatch(r.item.VoteHistory.elems, pollID.val)
    IN  IF voterID.err \/ pollID.err
        THEN Reply(NewError(StatusBadRequest), st, NoDb)
        ELSE IF r.err # NoErr
        THEN Reply(NewError(StatusNotFound), st, Db(r.err, 0))
        ELSE IF i # 0
        THEN Reply(JSONReply(MarshalHistory(r.item.VoteHistory.elems[i])),
                   st, Db(NoErr, 0))
        ELSE Reply(NewError(StatusNotFound), st, Db(NoErr, 0))

\* GET /voters/health
VoterAPI_HealthCheck(st) ==
    Reply(JSONReply([kind |-> "object", status |-> "ok", version |-> "1.0.0",
                     uptime |-> 100, users_processed |-> 1000,
                     errors_encountered |-> 10]),
          st, NoDb)

\* the end of ListAllVoters: a nil list is made an empty one and marshalled
VoterAPI_ListAllVotersReply(list) ==
    LET voterList == IF list.isNil THEN Slice(<<>>) ELSE list
    IN  JSONReply(JArray([i \in 1..Len(voterList.elems) |->
                             MarshalVoter(voterList.elems[i])]))

\* ---------------------------------------------------------------------------
\* Actions.  An action named after a handler is the arrival of a request at
\* goroutine p, the decoding of the request and the handler's first Redis
\* command; the actions named after a command are the later commands.
\* ---------------------------------------------------------------------------
\* GET /voters: GetAllVoters issues KEYS and then one JSON.GET per key
ListAllVoters(p) ==
    /\ procs[p].pc = "idle"
    /\ \E ks \in Orders(getAllKeys(store)), pol \in GrowthPolicies :
        IF ks = <<>>
        THEN Done(p, [op |-> "ListAllVoters"],
                  VoterAPI_ListAllVotersReply(GetAllVotersList(GetAllVotersVars(ks, pol))),
                  Db(NoErr, 0))
        ELSE Goto(p, [op |-> "ListAllVoters"], "GetAllVoters.JSONGet",
                  GetAllVotersVars(ks, pol))
    /\ UNCHANGED store

\* the loop of GetAllVoters: the JSON.GET of the next key; a key deleted
\* since KEYS ends the request with 404
GetAllVotersJSONGet(p) ==
    /\ procs[p].pc = "GetAllVoters.JSONGet"
    /\ LET r == GetAllVotersIter(store, procs[p].loc)
       IN  IF r.err # NoErr
           THEN Done(p, procs[p].req, NewError(StatusNotFound), Db(r.err, 0))
           ELSE IF r.vars.ks = <<>>
           THEN Done(p, procs[p].req,
                     VoterAPI_ListAllVotersReply(GetAllVotersList(r.vars)),
                     Db(NoErr, 0))
           ELSE Goto(p, procs[p].req, "GetAllVoters.JSONGet", r.vars)
    /\ UNCHANGED store

GetVoterReq(p) ==
    /\ procs[p].pc = "idle"
    /\ \E idp \in IdParams :
        Answer(p, [op |-> "GetVoter", id |-> idp], VoterAPI_GetVoter(store, idp))

\* POST /voters: the body is decoded and AddVoter checks that no document is
\* stored under the key
PostVoter(p) ==
    /\ procs[p].pc = "idle"
    /\ \E body \in VoterBodies :
        LET q == [op |-> "PostVoter", body |-> body]
            b == BodyParserVoter(body)
            err == AddVoterCheck(store, b.val)
        IN  IF b.err THEN Done(p, q, NewError(StatusBadRequest), NoDb)
            ELSE IF err # NoErr
            THEN Done(p, q, NewError(StatusInternalServerError), Db(err, 0))
            ELSE Goto(p, q, "AddVoter.JSONSet", [voterItem |-> b.val])
    /\ UNCHANGED store

\* AddVoter writes the document; PostVoter answers with the voter
AddVoterJSONSet(p) ==
    /\ procs[p].pc = "AddVoter.JSONSet"
    /\ store' = AddVoterWrite(store, procs[p].loc.voterItem)
    /\ Done(p, procs[p].req, JSONReply(MarshalVoter(procs[p].loc.voterItem)),
            Db(NoErr, 0))

\* PUT /voters: the body is decoded and UpdateVoter checks that a document is
\* stored under the key
UpdateVoterReq(p) ==
    /\ procs[p].pc = "idle"
    /\ \E body \in VoterBodies :
        LET q == [op |-> "UpdateVoter", body |-> body]
            b == BodyParserVoter(body)
            err == UpdateVoterCheck(store, b.val)
        IN  IF b.err THEN Done(p, q, NewError(StatusBadRequest), NoDb)
            ELSE IF err # NoErr
            THEN Done(p, q, NewError(StatusInternalServerError), Db(err, 0))
            ELSE Goto(p, q, "UpdateVoter.JSONSet",
                      [voterItem |-> b.val,
                       ok |-> JSONReply(MarshalVoter(b.val)),
                       fail |-> NewError(StatusInternalServerError)])
    /\ UNCHANGED store

\* UpdateVoter, called with a voter read earlier: the existence check.  loc
\* holds the voter to write and the caller's responses to success and failure
UpdateVoterJSONGet(p) ==
    /\ procs[p].pc = "UpdateVoter.JSONGet"
    /\ LET err == UpdateVoterCheck(store, procs[p].loc.voterItem)
       IN  IF err # NoErr
           THEN Done(p, procs[p].req, procs[p].loc.fail, Db(err, 0))
           ELSE Goto(p, procs[p].req, "UpdateVoter.JSONSet", procs[p].loc)
    /\ UNCHANGED store

\* UpdateVoter writes the whole voter it was given
UpdateVoterJSONSet(p) ==
    /\ procs[p].pc = "UpdateVoter.JSONSet"
    /\ store' = UpdateVoterWrite(store, procs[p].loc.voterItem)
    /\ Done(p, procs[p].req, procs[p].loc.ok, Db(NoErr, 0))

DeleteVoterReq(p) ==
    /\ procs[p].pc = "idle"
    /\ \E idp \in IdParams :
        Answer(p, [op |-> "DeleteVoter", id |-> idp], VoterAPI_DeleteVoter(store, idp))

\* DELETE /voters: DeleteAll lists the keys with KEYS
DeleteAllVoters(p) ==
    /\ procs[p].pc = "idle"
    /\ Goto(p, [op |-> "DeleteAllVoters"], "DeleteAll.Del",
            [keyList |-> getAllKeys(store)])
    /\ UNCHANGED store

\* DeleteAll deletes the keys it listed; DeleteAllVoters answers
DeleteAllDel(p) ==
    /\ procs[p].pc = "DeleteAll.Del"
    /\ LET r == DelKeyList(store, procs[p].loc.keyList)
       IN  /\ store' = r.store
           /\ IF r.err # NoErr
              THEN Done(p, procs[p].req, NewError(StatusInternalServerError),
                        Db(r.err, r.n))
              ELSE Done(p, procs[p].req, SendString("Delete All OK"), Db(NoErr, r.n))

GetVoterPollsReq(p) ==
    /\ procs[p].pc = "idle"
    /\ \E idp \in IdParams :
        Answer(p, [op |-> "GetVoterPolls", id |-> idp],
               VoterAPI_GetVoterPolls(store, idp))

GetVoterPollReq(p) ==
    /\ procs[p].pc = "idle"
    /\ \E idp \in IdParams, pollp \in PollParams :
        Answer(p, [op |-> "GetVoterPoll", id |-> idp, pollid |-> pollp],
               VoterAPI_GetVoterPoll(store, idp, pollp))

\* POST /voters/:id/polls/:pollid: the handler reads the voter with GetVoter,
\* appends the body's entry and calls UpdateVoter; it never reads :pollid
PostVoterPoll(p) ==
    /\ procs[p].pc = "idle"
    /\ \E idp \in IdParams, pollp \in PollParams, body \in HistoryBodies :
        LET q == [op |-> "PostVoterPoll", id |-> idp, pollid |-> pollp, body |-> body]
            voterID == ParamsInt(idp)
            b == BodyParserHistory(body)
            g == GetVoter(store, voterID.val)
        IN  IF voterID.err \/ b.err
            THEN Done(p, q, NewError(StatusBadRequest), NoDb)
            ELSE IF g.err # NoErr
            THEN Done(p, q, NewError(StatusNotFound), Db(g.err, 0))
            ELSE Goto(p, q, "UpdateVoter.JSONGet",
                      [voterItem |-> [g.item EXCEPT !.VoteHistory =
                                         GoAppend(g.item.VoteHistory, b.val)],
                       ok |-> JSONReply(MarshalHistory(b.val)),
                       fail |-> NewError(StatusInternalServerError)])
    /\ UNCHANGED store

\* Voter.AddVoterPoll, called by a user of package db (no handler calls it):
\* there is no HTTP response, db holds the error it returns
AddVoterPoll(p) ==
    /\ procs[p].pc = "idle"
    /\ \E id \in VoterIds, e \in HistoryObjects :
        LET q == [op |-> "AddVoterPoll", id |-> IntParam(id), body |-> e]
            r == AddVoterPollRead(store, UnmarshalHistory(e), id)
        IN  IF r.err # NoErr
            THEN Done(p, q, NoResp, Db(r.err, 0))
            ELSE Goto(p, q, "UpdateVoter.JSONGet",
                      [voterItem |-> r.item, ok |-> NoResp, fail |-> NoResp])
    /\ UNCHANGED store

\* PUT /voters/:id/polls/:pollid
UpdateVoterPollReq(p) ==
    /\ procs[p].pc = "idle"
    /\ \E idp \in IdParams, pollp \in PollParams, body \in HistoryBodies :
        LET q == [op |-> "UpdateVoterPoll", id |-> idp, pollid |-> pollp, body |-> body]
            voterID == ParamsInt(idp)
            pollID == ParamsInt(pollp)
            b == BodyParserHistory(body)
            r == UpdateVoterPollRead(store, b.val, voterID.val, pollID.val)
        IN  IF voterID.err \/ pollID.err \/ b.err
            THEN Done(p, q, NewError(StatusBadRequest), NoDb)
            ELSE IF r.err # NoErr
            THEN Done(p, q, NewError(StatusInternalServerError), Db(r.err, 0))
            ELSE Goto(p, q, "UpdateVoter.JSONGet",
                      [voterItem |-> r.item,
                       ok |-> JSONReply(MarshalHistory(b.val)),
                       fail |-> NewError(StatusInternalServerError)])
    /\ UNCHANGED store

\* DELETE /voters/:id/polls/:pollid
DeleteVoterPollReq(p) ==
    /\ procs[p].pc = "idle"
    /\ \E idp \in IdParams, pollp \in PollParams :
        LET q == [op |-> "DeleteVoterPoll", id |-> idp, pollid |-> pollp]
            voterID == ParamsInt(idp)
            pollID == ParamsInt(pollp)
            r == DeleteVoterPollRead(store, voterID.val, pollID.val)
        IN  IF voterID.err \/ pollID.err
            THEN Done(p, q, NewError(StatusBadRequest), NoDb)
            ELSE IF r.err # NoErr
            THEN Done(p, q, NewError(StatusInternalServerError), Db(r.err, 0))
            ELSE Goto(p, q, "UpdateVoter.JSONGet",
                      [voterItem |-> r.item,
                       ok |-> SendString("Voter history deleted successfully"),
                       fail |-> NewError(StatusInternalServerError)])
    /\ UNCHANGED store

HealthCheck(p) ==
    /\ procs[p].pc = "idle"
    /\ Answer(p, [op |-> "HealthCheck"], VoterAPI_HealthCheck(store))

Next ==
    \E p \in Procs :
        \/ ListAllVoters(p)
        \/ GetAllVotersJSONGet(p)
        \/ GetVoterReq(p)
        \/ PostVoter(p)
        \/ AddVoterJSONSet(p)
        \/ UpdateVoterReq(p)
        \/ UpdateVoterJSONGet(p)
        \/ UpdateVoterJSONSet(p)
        \/ DeleteVoterReq(p)
        \/ DeleteAllVoters(p)
        \/ DeleteAllDel(p)
        \/ GetVoterPollsReq(p)
        \/ GetVoterPollReq(p)
        \/ PostVoterPoll(p)
        \/ AddVoterPoll(p)
        \/ UpdateVoterPollReq(p)
        \/ DeleteVoterPollReq(p)
        \/ HealthCheck(p)

Spec == Init /\ [][Next]_vars

\* ---------------------------------------------------------------------------
\* Replace-history and delete-history requests on longer histories: the
\* requests PUT and DELETE /voters/:id/polls/:pollid of two goroutines, the
\* same steps as in Spec, on stores that hold up to MaxPollHist history
\* entries, so that the entry a request touches has entries before and after
\* it.
\* ---------------------------------------------------------------------------
\* the histories stored: none, or the votes of a voter in any polls, the k-th
\* vote carrying vote identifier k
PollStoredHistories ==
    {NilSlice} \cup
    {Slice([k \in DOMAIN polls |-> VoterHistory(polls[k], k, date)]) :
        polls \in UNION {[1..n -> PollIds] : n \in 1..MaxPollHist}, date \in VoteDates}

\* the stores the requests may find: any subset of the voters with up to
\* MaxPollHist history entries in all
PollStores ==
    LET doc(i, h) == MarshalVoter(VoterItem(i, "Jane Smith", "jane@example.com", h))
        docs == {doc(i, h) : i \in VoterIds, h \in PollStoredHistories}
        all == UNION {[K -> docs] : K \in SUBSET {redisKeyFromId(i) : i \in VoterIds}}
    IN  {st \in all : /\ \A k \in DOMAIN st : st[k].voterId = k[2]
                      /\ SumHistLen(st, VoterIds) <= MaxPollHist}

PollInit ==
    /\ store \in PollStores
    /\ pre = NoStore
    /\ procs = [p \in Procs |-> NoRequest]

PollNext ==
    \E p \in Procs :
        \/ UpdateVoterPollReq(p)
        \/ DeleteVoterPollReq(p)
        \/ UpdateVoterJSONGet(p)
        \/ UpdateVoterJSONSet(p)

SpecPoll == PollInit /\ [][PollNext]_vars

\* ---------------------------------------------------------------------------
\* A request served alone: the goroutine has answered and no other goroutine
\* has issued a command since the request arrived, so pre is the store the
\* request found and store the one it left.  req, resp and dbres are that
\* request, its response and what its data-access call returned.
\* ---------------------------------------------------------------------------
ServedAlone(p) ==
    /\ procs[p].pc = "done"
    /\ procs[p].alone

req ==
    IF \E p \in Procs : ServedAlone(p)
    THEN procs[CHOOSE p \in Procs : ServedAlone(p)].req
    ELSE NoReq

resp ==
    IF \E p \in Procs : ServedAlone(p)
    THEN procs[CHOOSE p \in Procs : ServedAlone(p)].resp
    ELSE NoResp

dbres ==
    IF \E p \in Procs : ServedAlone(p)
    THEN procs[CHOOSE p \in Procs : ServedAlone(p)].db
    ELSE NoDb

\* ---------------------------------------------------------------------------
\* Concurrent requests.  fiber serves each request on its own goroutine and
\* the handlers share one Redis client without locking, so the Redis
\* commands of two handlers interleave; each command is atomic in the server.
\* POST /voters/:id/polls/:pollid issues three commands: JSON.GET (GetVoter),
\* JSON.GET (the existence check of UpdateVoter), JSON.SET.
\* ---------------------------------------------------------------------------
IdleProc ==
    [pc |-> "idle", id |-> BadParam, body |-> MalformedBody,
     voter |-> ZeroVoterItem, status |-> 0]

\* the stores the concurrent requests may find: voter 1 with no, an empty or
\* a one-entry history, and with or without voter 2
ConcStores ==
    LET doc(i, h) == MarshalVoter(VoterItem(i, "Jane Smith", "jane@example.com", h))
        hists == {NilSlice, Slice(<<>>)}
                 \cup {Slice(<<UnmarshalHistory(e)>>) : e \in HistoryObjects}
        one == {[k \in {redisKeyFromId(1)} |-> doc(1, h)] : h \in hists}
    IN  one \cup {JSONSet(st, redisKeyFromId(2), VoterItem(2, "John Doe", "jane@example.com", NilSlice)) :
                    st \in one}

ConcInit ==
    /\ store \in ConcStores
    /\ pre = store
    /\ procs = [p \in Procs |-> IdleProc]

\* PostVoterPoll, lines 202-212: the request arrives and is decoded (the
\* handler never reads :pollid)
ConcReceive(p) ==
    /\ procs[p].pc = "idle"
    /\ \E idp \in IdParams, body \in HistoryBodies :
        procs' = [procs EXCEPT ![p] =
            IF ParamsInt(idp).err \/ BodyParserHistory(body).err
            THEN [@ EXCEPT !.pc = "done", !.id = idp, !.body = body,
                           !.status = StatusBadRequest]
            ELSE [@ EXCEPT !.pc = "get", !.id = idp, !.body = body]]
    /\ UNCHANGED <<store, pre>>

\* PostVoterPoll, lines 214-220: GetVoter and the append to the local copy
ConcGetVoter(p) ==
    /\ procs[p].pc = "get"
    /\ LET g == GetVoter(store, ParamsInt(procs[p].id).val)
           b == BodyParserHistory(procs[p].body)
       IN  procs' = [procs EXCEPT ![p] =
            IF g.err # NoErr
            THEN [@ EXCEPT !.pc = "done", !.status = StatusNotFound]
            ELSE [@ EXCEPT !.pc = "check",
                           !.voter = [g.item EXCEPT !.VoteHistory =
                                         GoAppend(g.item.VoteHistory, b.val)]]]
    /\ UNCHANGED <<store, pre>>

\* UpdateVoter, lines 182-186: the existence check
ConcUpdateCheck(p) ==
    /\ procs[p].pc = "check"
    /\ LET g == getVoterFromRedis(store, redisKeyFromId(procs[p].voter.VoterId),
                                  FreshVoterItem, EmptyHeap, AnyPolicy)
       IN  procs' = [procs EXCEPT ![p] =
            IF g.err # NoErr
            THEN [@ EXCEPT !.pc = "done", !.status = StatusInternalServerError]
            ELSE [@ EXCEPT !.pc = "set"]]
    /\ UNCHANGED <<store, pre>>

\* a write that appends the entry to the document as stored at that moment
ConcUpdateSet_AtomicAppend(p) ==
    /\ procs[p].pc = "set"
    /\ LET g == GetVoter(store, procs[p].voter.VoterId)
           b == BodyParserHistory(procs[p].body)
       IN  store' = JSONSet(store, redisKeyFromId(procs[p].voter.VoterId),
                            [g.item EXCEPT !.VoteHistory =
                                GoAppend(g.item.VoteHistory, b.val)])
    /\ procs' = [procs EXCEPT ![p] = [@ EXCEPT !.pc = "done", !.status = StatusOK]]
    /\ UNCHANGED pre

\* UpdateVoter, lines 190-195, and PostVoterPoll, line 227: the whole local
\* copy is written and the request answered 200
ConcUpdateSet(p) ==
    /\ procs[p].pc = "set"
    /\ store' = JSONSet(store, redisKeyFromId(procs[p].voter.VoterId), procs[p].voter)
    /\ procs' = [procs EXCEPT ![p] = [@ EXCEPT !.pc = "done", !.status = StatusOK]]
    /\ UNCHANGED pre

ConcNext ==
    \E p \in Procs :
        \/ ConcReceive(p)
        \/ ConcGetVoter(p)
        \/ ConcUpdateCheck(p)
        \/ ConcUpdateSet(p)

SpecConc == ConcInit /\ [][ConcNext]_vars

\* ---------------------------------------------------------------------------
\* Concurrent inserts.  POST /voters issues two commands: JSON.GET (the
\* existence check of AddVoter) and JSON.SET; the commands of two requests
\* interleave.
\* ---------------------------------------------------------------------------
IdleInsert ==
    [pc |-> "idle", body |-> MalformedBody, voter |-> ZeroVoterItem, status |-> 0]

\* the stores the concurrent inserts may find: empty, or holding voter 2
InsertStores ==
    {<<>>,
     JSONSet(<<>>, redisKeyFromId(2),
             VoterItem(2, "John Doe", "jane@example.com", NilSlice))}

InsertInit ==
    /\ store \in InsertStores
    /\ pre = store
    /\ procs = [p \in Procs |-> IdleInsert]

\* PostVoter, lines 99-102: the request arrives and its body is decoded
InsertReceive(p) ==
    /\ procs[p].pc = "idle"
    /\ \E body \in VoterBodies :
        procs' = [procs EXCEPT ![p] =
            IF BodyParserVoter(body).err
            THEN [@ EXCEPT !.pc = "done", !.body = body, !.status = StatusBadRequest]
            ELSE [@ EXCEPT !.pc = "check", !.body = body,
                           !.voter = BodyParserVoter(body).val]]
    /\ UNCHANGED <<store, pre>>

\* AddVoter, lines 134-138, and PostVoter, lines 104-107: the existence check;
\* a document found is "voter already exists", answered 500
InsertCheck(p) ==
    /\ procs[p].pc = "check"
    /\ LET g == getVoterFromRedis(store, redisKeyFromId(procs[p].voter.VoterId),
                                  FreshVoterItem, EmptyHeap, AnyPolicy)
       IN  procs' = [procs EXCEPT ![p] =
            IF g.err = NoErr
            THEN [@ EXCEPT !.pc = "done", !.status = StatusInternalServerError]
            ELSE [@ EXCEPT !.pc = "set"]]
    /\ UNCHANGED <<store, pre>>

\* AddVoter, lines 141-146, and PostVoter, line 109: the document is written
\* and the request answered 200
InsertSet(p) ==
    /\ procs[p].pc = "set"
    /\ store' = JSONSet(store, redisKeyFromId(procs[p].voter.VoterId), procs[p].voter)
    /\ procs' = [procs EXCEPT ![p] = [@ EXCEPT !.pc = "done", !.status = StatusOK]]
    /\ UNCHANGED pre

InsertNext ==
    \E p \in Procs :
        \/ InsertReceive(p)
        \/ InsertCheck(p)
        \/ InsertSet(p)

SpecInsert == InsertInit /\ [][InsertNext]_vars

\* ---------------------------------------------------------------------------
\* Vocabulary of the properties
\* ---------------------------------------------------------------------------
Exists(st, id) == redisKeyFromId(id) \in DOMAIN st

\* the entries of the voteHistory member of a stored document
HistElems(st, id) ==
    IF Exists(st, id) /\ st[redisKeyFromId(id)].voteHistory.kind = "array"
    THEN st[redisKeyFromId(id)].voteHistory.elems
    ELSE <<>>

HasPoll(h, p) == \E i \in 1..Len(h) : h[i].pollId = p

DistinctPolls(h) ==
    \A i, j \in 1..Len(h) : i # j => h[i].pollId # h[j].pollId

\* every key other than voter id's is stored as before the request
OthersUnchanged(id) ==
    /\ (DOMAIN store) \ {redisKeyFromId(id)} = (DOMAIN pre) \ {redisKeyFromId(id)}
    /\ \A k \in (DOMAIN pre) \ {redisKeyFromId(id)} : store[k] = pre[k]

\* ---------------------------------------------------------------------------
\* Properties
\* ---------------------------------------------------------------------------

\* C1: POST /voters/:id/polls/:pollid fails when the voter's stored history
\* already has an entry with the poll identifier of the entry being added,
\* leaving the history unchanged; so a history with distinct poll identifiers
\* keeps distinct poll identifiers under add-history requests.
C1_AddRejectsDuplicatePoll ==
    (/\ req.op = "PostVoterPoll"
     /\ req.id.int
     /\ req.body.kind = "object"
     /\ Exists(pre, req.id.val))
    => /\ HasPoll(HistElems(pre, req.id.val), req.body.pollId)
            => (resp.status # StatusOK /\ store = pre)
       /\ DistinctPolls(HistElems(pre, req.id.val))
            => DistinctPolls(HistElems(store, req.id.val))

\* C2: replace-history and delete-history for a missing voter or for a voter
\* without an entry of the given poll identifier, and delete-voter for an
\* identifier that is not stored, answer 404 and leave the store unchanged.
C2_NotFoundIs404 ==
    /\ (/\ req.op \in {"UpdateVoterPoll", "DeleteVoterPoll"}
        /\ req.id.int /\ req.pollid.int
        /\ (req.op = "UpdateVoterPoll" => req.body.kind = "object")
        /\ ~HasPoll(HistElems(pre, req.id.val), req.pollid.val))
       => (resp.status = StatusNotFound /\ store = pre)
    /\ (/\ req.op = "DeleteVoter"
        /\ req.id.int
        /\ ~Exists(pre, req.id.val))
       => (resp.status = StatusNotFound /\ store = pre)

\* C3: GET /voters on a store without voter keys, and GET /voters/:id/polls
\* for an existing voter whose history has no entries, answer with an empty
\* JSON array, never null.
C3_ListsNeverNull ==
    /\ (req.op = "ListAllVoters" /\ getAllKeys(pre) = {})
       => (resp.status = StatusOK /\ resp.body = JArray(<<>>))
    /\ (/\ req.op = "GetVoterPolls"
        /\ req.id.int
        /\ Exists(pre, req.id.val)
        /\ Len(HistElems(pre, req.id.val)) = 0)
       => (resp.status = StatusOK /\ resp.body = JArray(<<>>))

\* C4: list-all returns exactly one item per stored key, and each item
\* equals what get-by-id returns for that voter, history included.
C4_ListAllEqualsGetById ==
    (req.op = "ListAllVoters")
    => /\ resp.status = StatusOK
       /\ Len(resp.body.elems) = Cardinality(getAllKeys(pre))
       /\ \A k \in getAllKeys(pre) :
            \E i \in 1..Len(resp.body.elems) :
                /\ resp.body.elems[i].voterId = k[2]
                /\ resp.body.elems[i] = MarshalVoter(GetVoter(pre, k[2]).item)

\* C5: delete-all succeeds in every store state, the empty store included,
\* reports the number of voter keys present before the call, and leaves no
\* key under the prefix, so that get-by-id fails for every identifier.
C5_DeleteAllSucceeds ==
    (req.op = "DeleteAllVoters")
    => /\ dbres.err = NoErr
       /\ resp.status = StatusOK
       /\ dbres.n = Cardinality(getAllKeys(pre))
       /\ getAllKeys(store) = {}
       /\ \A id \in VoterIds : GetVoter(store, id).err # NoErr

\* the entries a request body's voteHistory member carries
BodyEntries(body) ==
    IF body.voteHistory.kind = "array" THEN body.voteHistory.elems ELSE <<>>

\* index of the first stored entry of poll p
FirstIdx(h, p) ==
    CHOOSE i \in 1..Len(h) :
        h[i].pollId = p /\ \A k \in 1..(i - 1) : h[k].pollId # p

\* the stored document of voter id carries the members of the request body
StoredAsRequested(st, id, body) ==
    /\ Exists(st, id)
    /\ st[redisKeyFromId(id)].voterId = body.voterId
    /\ st[redisKeyFromId(id)].name = body.name
    /\ st[redisKeyFromId(id)].email = body.email
    /\ HistElems(st, id) = BodyEntries(body)

\* C6: POST /voters fails exactly when a voter with the body's identifier is
\* stored, and then leaves the store unchanged; for a new identifier it
\* succeeds, and the following GET /voters/:id returns the identifier, name,
\* email and history entries of the request.
C6_InsertExactlyWhenNew ==
    (req.op = "PostVoter" /\ req.body.kind = "object")
    => LET id == req.body.voterId
           got == VoterAPI_GetVoter(store, IntParam(id)).resp
       IN  /\ Exists(pre, id)
                => (dbres.err # NoErr /\ resp.status # StatusOK /\ store = pre)
           /\ ~Exists(pre, id)
                => /\ dbres.err = NoErr
                   /\ resp.status = StatusOK
                   /\ got.status = StatusOK
                   /\ got.body.voterId = id
                   /\ got.body.name = req.body.name
                   /\ got.body.email = req.body.email
                   /\ got.body.voteHistory.kind \in {"null", "array"}
                   /\ BodyEntries(got.body) = BodyEntries(req.body)
                   /\ OthersUnchanged(id)

\* an insert for a stored identifier with another name was refused
C6_Witness ==
    /\ req.op = "PostVoter" /\ req.body.kind = "object"
    /\ Exists(pre, req.body.voterId)
    /\ pre[redisKeyFromId(req.body.voterId)].name # req.body.name
    /\ Len(BodyEntries(req.body)) = 1
    /\ resp.status = StatusInternalServerError

\* C7: after a successful POST /voters/v/polls/p the added entry is the last
\* element of v's history, the earlier entries are unchanged, and
\* GET /voters/v/polls/p returns pollId = p and the posted voteId, whatever
\* pollId the body carries.
C7_AddedEntryIsLastAndRetrievable ==
    (/\ req.op = "PostVoterPoll"
     /\ resp.status = StatusOK
     /\ req.pollid.int)
    => LET got == VoterAPI_GetVoterPoll(store, req.id, req.pollid).resp
       IN  /\ HistElems(store, req.id.val)
                = Append(HistElems(pre, req.id.val), req.body)
           /\ got.status = StatusOK
           /\ got.body.pollId = req.pollid.val
           /\ got.body.voteId = req.body.voteId

\* C8: a replace-history or delete-history request whose poll identifier
\* matches an entry succeeds and changes only the first matching entry:
\* replace overwrites it in place, delete removes it, the other entries keep
\* value and order, and the voter's identifier, name and email and every
\* other document are unchanged.
C8_PollMutationTouchesOneEntry ==
    (/\ req.op \in {"UpdateVoterPoll", "DeleteVoterPoll"}
     /\ req.id.int /\ req.pollid.int
     /\ (req.op = "UpdateVoterPoll" => req.body.kind = "object")
     /\ HasPoll(HistElems(pre, req.id.val), req.pollid.val))
    => LET id == req.id.val
           key == redisKeyFromId(id)
           h0 == HistElems(pre, id)
           h1 == HistElems(store, id)
           i == FirstIdx(h0, req.pollid.val)
       IN  /\ resp.status = StatusOK
           /\ Exists(store, id)
           /\ store[key].voterId = pre[key].voterId
           /\ store[key].name = pre[key].name
           /\ store[key].email = pre[key].email
           /\ store[key].voteHistory.kind = "array"
           /\ OthersUnchanged(id)
           /\ req.op = "UpdateVoterPoll"
                => /\ Len(h1) = Len(h0)
                   /\ h1[i] = req.body
                   /\ \A k \in 1..Len(h0) : k # i => h1[k] = h0[k]
           /\ req.op = "DeleteVoterPoll"
                => /\ Len(h1) = Len(h0) - 1
                   /\ \A k \in 1..(i - 1) : h1[k] = h0[k]
                   /\ \A k \in i..(Len(h0) - 1) : h1[k] = h0[k + 1]

\* a delete-history request removed the first of three different entries,
\* the last of which is of the same poll, while another voter is stored: the
\* two entries behind the removed one moved up in their order
C8_Witness ==
    /\ req.op = "DeleteVoterPoll" /\ req.id.int /\ req.pollid.int
    /\ resp.status = StatusOK
    /\ Len(HistElems(pre, req.id.val)) = 3
    /\ HistElems(pre, req.id.val)[1].pollId = req.pollid.val
    /\ HistElems(pre, req.id.val)[2].pollId # req.pollid.val
    /\ HistElems(pre, req.id.val)[3].pollId = req.pollid.val
    /\ HistElems(pre, req.id.val)[1] # HistElems(pre, req.id.val)[3]
    /\ HistElems(store, req.id.val)
          = <<HistElems(pre, req.id.val)[2], HistElems(pre, req.id.val)[3]>>
    /\ Cardinality(DOMAIN pre) = 2

\* C9: PUT /voters fails and creates nothing when no voter with the body's
\* identifier is stored; when one is, the stored document afterwards carries
\* the request's identifier, name, email and history and nothing of the prior
\* document (a request without history leaves no history entries).
C9_ReplaceVoterWholesale ==
    (req.op = "UpdateVoter" /\ req.body.kind = "object")
    => LET id == req.body.voterId
       IN  /\ ~Exists(pre, id)
                => (dbres.err # NoErr /\ resp.status # StatusOK /\ store = pre)
           /\ Exists(pre, id)
                => /\ dbres.err = NoErr
                   /\ resp.status = StatusOK
                   /\ StoredAsRequested(store, id, req.body)
                   /\ OthersUnchanged(id)

\* a voter with history and another name was replaced by a request without
\* a voteHistory member
C9_Witness ==
    /\ req.op = "UpdateVoter" /\ req.body.kind = "object"
    /\ req.body.voteHistory = JMissing
    /\ Len(HistElems(pre, req.body.voterId)) = 2
    /\ pre[redisKeyFromId(req.body.voterId)].name # req.body.name
    /\ resp.status = StatusOK
    /\ Len(HistElems(store, req.body.voterId)) = 0

\* the concurrent requests that were answered 200 for voter id
Added(id) ==
    {p \in Procs : procs[p].status = StatusOK /\ procs[p].voter.VoterId = id}

\* C10: concurrent add-history requests for one voter are read-modify-write
\* on the whole document: what is stored is always the copy one successful
\* request read, plus that request's entry, and nothing of a request that
\* wrote in between; so when two requests that both read the original
\* document report success, the stored history has only one of the two new
\* entries.
C10_StoredIsOneRequestsCopy ==
    \A id \in VoterIds :
        /\ Added(id) # {}
            => \E p \in Added(id) :
                    store[redisKeyFromId(id)] = MarshalVoter(procs[p].voter)
        /\ (/\ Added(id) = Procs
            /\ \A p \in Procs :
                  Len(procs[p].voter.VoteHistory.elems) = Len(HistElems(pre, id)) + 1)
            => Len(HistElems(store, id)) = Len(HistElems(pre, id)) + 1

\* both requests added different polls, new to voter 1, and reported success,
\* and one of the two entries is not stored
C10_LostUpdate ==
    /\ Added(1) = Procs
    /\ procs[1].body.pollId # procs[2].body.pollId
    /\ ~HasPoll(HistElems(pre, 1), procs[1].body.pollId)
    /\ ~HasPoll(HistElems(pre, 1), procs[2].body.pollId)
    /\ \E p \in Procs : ~HasPoll(HistElems(store, 1), procs[p].body.pollId)
    /\ \E p \in Procs : HasPoll(HistElems(store, 1), procs[p].body.pollId)

\* the concurrent insert requests that were answered 200 for voter id
Inserted(id) ==
    {p \in Procs : procs[p].status = StatusOK /\ procs[p].voter.VoterId = id}

\* C11: of the concurrent inserts of an identifier that was not stored, at
\* most one reports success, and the document a successful insert wrote is
\* still the stored one (no other insert has overwritten it).
C11_AtMostOneInsertSucceeds ==
    \A id \in VoterIds :
        ~Exists(pre, id) =>
            /\ Cardinality(Inserted(id)) <= 1
            /\ \A p \in Inserted(id) :
                  store[redisKeyFromId(id)] = MarshalVoter(procs[p].voter)

\* an insert never reports success for an identifier that was stored before
\* the requests, and the stored document of that identifier is unchanged
C11_StoredIdentifierRejected ==
    \A id \in VoterIds :
        Exists(pre, id) =>
            /\ Inserted(id) = {}
            /\ store[redisKeyFromId(id)] = pre[redisKeyFromId(id)]

====
